---- MODULE Spec2Model ----
(***************************************************************************)
(* One hand of traditional (five card draw) poker, as played by            *)
(* TraditionalPokerGame.play_hand in src/poker/poker_game_traditional.py.  *)
(*                                                                         *)
(* play_hand is one sequential task; pc is its position.  Every statement  *)
(* that emits an event, talks to a player or changes the roster, the deck, *)
(* the hands or the pot is one step, so that the order of notifications    *)
(* and state changes is visible.                                           *)
(*                                                                         *)
(* The collaborators (GamePlayers, Deck, Scores, Pots, BetHandler, the     *)
(* player channel) live outside this file; they are modelled from their    *)
(* contracts.  The deck is kept in one fixed order: shuffling only         *)
(* permutes the pool and no property below depends on the permutation.     *)
(***************************************************************************)
EXTENDS Integers, Sequences, FiniteSets, TLC

\* ------------------------------------------------------------------------
\* Bounds and program constants
\* ------------------------------------------------------------------------

\* number of players seated at the table
NumPlayers == 3

\* TraditionalPokerGameFactory.__init__(blind=10.0)
Blind == 10

\* self._assign_cards(5, ...)
HandSize == 5

\* if len(discard_keys) > 4
MaxDiscard == 4

\* lowest_rank = 11 - len(players)
LowestRankBase == 11

\* ranks run up to the ace (14), in four suits
HighestRank == 14
NumSuits == 4

Players == 1..NumPlayers

\* the dealer play_hand is called with: the rotation is 2, 3, ..., 1
Dealers == {1}

\* money a player may sit down with: below, at, above the blind
MoneyValues == {5, 10, 20}

\* what every player left in a betting round puts in (capped by their money)
BetAmounts == {0, 10}

LowestRank == LowestRankBase - NumPlayers

DeckSize == (HighestRank - LowestRank + 1) * NumSuits

\* ------------------------------------------------------------------------
\* State
\* ------------------------------------------------------------------------
VARIABLES
    pc,          \* position of play_hand
    dealer,      \* dealer_id
    startMoney,  \* money of each player when play_hand was called (history)
    money,       \* player.money
    active,      \* player is in GamePlayers.active
    pool,        \* deck: cards still to draw, drawn from the end
    pile,        \* deck: discard pile
    cards,       \* scores.player_cards(id)
    pot,         \* pots: chips collected
    bets,        \* blind_bets
    iter,        \* players the running for-loop has still to visit
    cur,         \* player of the running loop iteration (0: none)
    message,     \* outcome of player.recv_message in _get_player_discard
    exc,         \* exception _get_player_discard raised ("none": returned)
    discard,     \* list returned by _get_player_discard
    turnPool,    \* deck and hand when the current exchange turn began
    turnPile,
    turnCards,
    log,         \* events raised on the dispatcher, in order
    notices,     \* error notices delivered to each player
    turns,       \* exchange turns started, per player
    betRounds,   \* bet rounds run
    showdowns,   \* showdowns run
    payouts      \* winner determinations run

vars == <<pc, dealer, startMoney, money, active, pool, pile, cards, pot, bets,
          iter, cur, message, exc, discard, turnPool, turnPile, turnCards,
          log, notices, turns, betRounds, showdowns, payouts>>

\* ------------------------------------------------------------------------
\* Helpers
\* ------------------------------------------------------------------------

RECURSIVE SumOver(_, _)
SumOver(f, S) ==
    IF S = {} THEN 0
    ELSE LET p == CHOOSE x \in S : TRUE IN f[p] + SumOver(f, S \ {p})

RECURSIVE SeqToSet(_)
SeqToSet(s) == IF s = <<>> THEN {} ELSE {Head(s)} \cup SeqToSet(Tail(s))

Take(s, k) == SubSeq(s, 1, k)
Drop(s, k) == SubSeq(s, k + 1, Len(s))

Reverse(s) == [i \in 1..Len(s) |-> s[Len(s) + 1 - i]]

NoBets == [p \in {} |-> 0]

Ev(type, player, num, ids, b) ==
    [type |-> type, player |-> player, num |-> num, ids |-> ids, bets |-> b]

Event(type, player, num) == Ev(type, player, num, <<>>, NoBets)

\* ---- GamePlayers ----

ActiveSet == {p \in Players : active[p]}

count_active == Cardinality(ActiveSet)

count_active_with_money == Cardinality({p \in ActiveSet : money[p] > 0})

\* GamePlayers.active: the active players in seating order
ActiveList == SelectSeq([i \in 1..NumPlayers |-> i], LAMBDA p : active[p])

\* GamePlayers.round(dealer_id): the seats clockwise, beginning just after
\* the dealer; inactive seats are skipped when the loop reaches them
Seats(d) == [i \in 1..NumPlayers |-> ((d + i - 1) % NumPlayers) + 1]

RECURSIVE SkipInactive(_)
SkipInactive(s) ==
    IF s = <<>> THEN s
    ELSE IF active[Head(s)] THEN s ELSE SkipInactive(Tail(s))

\* ---- Deck ----

\* Deck.pop_cards(k): k cards from the end of the pool; when the pool runs
\* short, what is left is taken and the discard pile becomes the pool
PopCards(pl, dp, k) ==
    IF Len(pl) < k
    THEN LET rest == k - Len(pl) IN
         [cards   |-> pl \o Reverse(Drop(dp, Len(dp) - rest)),
          pool    |-> Take(dp, Len(dp) - rest),
          pile    |-> <<>>]
    ELSE [cards   |-> Reverse(Drop(pl, Len(pl) - k)),
          pool    |-> Take(pl, Len(pl) - k),
          pile    |-> dp]

\* Deck.push_cards(discard)
PushCards(dp, d) == dp \o d

\* ------------------------------------------------------------------------
\* The card-exchange message and its validation (_get_player_discard)
\* ------------------------------------------------------------------------

\* a reference of the "cards" list: an integer, or a value that is no index
Int_(n) == [isInt |-> TRUE, val |-> n]
NotAnIndex == [isInt |-> FALSE, val |-> 0]

RECURSIVE IntRefs(_)
IntRefs(s) == IF s = <<>> THEN <<>> ELSE <<Int_(Head(s))>> \o IntRefs(Tail(s))

\* the "cards" lists the players answer with
CardLists ==
    { IntRefs(s) : s \in { <<>>, <<0, 2>>, <<0, 2, 0>>, <<5>>, <<-5, -3>>,
                           <<-6>>, <<0, -5>>, <<0, 1, 2, 3>>,
                           <<0, 1, 2, 3, 4>>, <<0, 1, 2, 3, -1>> } }
    \cup { <<NotAnIndex>>, <<Int_(1), NotAnIndex>> }

Msg(outcome, mtype, hasCards, refs) ==
    [outcome |-> outcome, mtype |-> mtype, hasCards |-> hasCards, refs |-> refs]

NoMessage == Msg("none", "", FALSE, <<>>)

\* what player.recv_message can do: raise ChannelError, raise
\* MessageTimeout, or return a message
Responses ==
    { Msg("ChannelError", "", FALSE, <<>>),
      Msg("MessageTimeout", "", FALSE, <<>>),
      Msg("message", "bet", TRUE, <<>>),
      Msg("message", "change-cards", FALSE, <<>>) }
    \cup { Msg("message", "change-cards", TRUE, l) : l \in CardLists }

\* list(set(discard_keys)): one element per distinct key, here in the order
\* of first occurrence
RECURSIVE Dedup(_)
Dedup(s) ==
    IF s = <<>> THEN <<>>
    ELSE LET rest == Dedup(Take(s, Len(s) - 1)) IN
         IF s[Len(s)] \in SeqToSet(rest) THEN rest ELSE rest \o <<s[Len(s)]>>

\* mutant: the limit is the size of the hand
TooMany_HandSize(keys) == Len(keys) > HandSize

\* len(discard_keys) > 4
TooMany(keys) == Len(keys) > MaxDiscard

\* player_cards[key] succeeds: an integer in -len..len-1 (a Python list
\* index counts from the end when negative)
Resolvable(hand, key) ==
    key.isInt /\ key.val >= 0 - Len(hand) /\ key.val < Len(hand)

\* player_cards[key]
Resolve(hand, key) ==
    IF key.val >= 0 THEN hand[key.val + 1] ELSE hand[Len(hand) + key.val + 1]

\* the exception _get_player_discard ends with, "none" when it returns
DiscardError(m, hand) ==
    IF m.outcome # "message" THEN m.outcome
    ELSE IF m.mtype # "change-cards" THEN "MessageFormatError"
    ELSE IF ~m.hasCards THEN "MessageFormatError"
    ELSE LET keys == Dedup(m.refs) IN
         IF TooMany(keys) THEN "MessageFormatError"
         ELSE IF \E i \in 1..Len(keys) : ~Resolvable(hand, keys[i])
              THEN "MessageFormatError"
              ELSE "none"

\* [player_cards[key] for key in discard_keys]
DiscardOf(m, hand) ==
    LET keys == Dedup(m.refs) IN [i \in 1..Len(keys) |-> Resolve(hand, keys[i])]

\* [card for card in scores.player_cards(player.id) if card not in discard]
\*     + new_cards
NewHand(hand, d, new) == SelectSeq(hand, LAMBDA c : c \notin SeqToSet(d)) \o new

\* ------------------------------------------------------------------------
\* Initial state: a freshly created game whose play_hand is being called
\* ------------------------------------------------------------------------

Init ==
    /\ pc = "reset"
    /\ dealer \in Dealers
    /\ startMoney \in [Players -> MoneyValues]
    /\ money = startMoney
    /\ active = [p \in Players |-> TRUE]
    /\ pool = <<>>
    /\ pile = <<>>
    /\ cards = [p \in Players |-> <<>>]
    /\ pot = 0
    /\ bets = NoBets
    /\ iter = <<>>
    /\ cur = 0
    /\ message = NoMessage
    /\ exc = "none"
    /\ discard = <<>>
    /\ turnPool = <<>>
    /\ turnPile = <<>>
    /\ turnCards = <<>>
    /\ log = <<>>
    /\ notices = [p \in Players |-> 0]
    /\ turns = [p \in Players |-> 0]
    /\ betRounds = 0
    /\ showdowns = 0
    /\ payouts = 0

roster == <<money, active>>
deck == <<pool, pile>>
turn == <<cur, message, exc, discard, turnPool, turnPile, turnCards>>
counters == <<notices, turns, betRounds, showdowns, payouts>>

\* ------------------------------------------------------------------------
\* play_hand, up to the blinds
\* ------------------------------------------------------------------------

\* self._game_players.reset(); create_deck(); _create_scores(); _create_pots()
Reset ==
    /\ pc = "reset"
    /\ pool' = [i \in 1..DeckSize |-> i]
    /\ pile' = <<>>
    /\ cards' = [p \in Players |-> <<>>]
    /\ pot' = 0
    /\ iter' = ActiveList
    /\ pc' = "blinds_check"
    /\ UNCHANGED <<dealer, startMoney, roster, bets, turn, log, counters>>

\* mutant: only players with no money at all are kicked out
Underfunded_NoMoney(p) == money[p] <= 0

\* if player.money < self._blind
Underfunded(p) == money[p] < Blind

\* _collect_blinds: for player in self._game_players.active: if ...
BlindsCheck ==
    /\ pc = "blinds_check"
    /\ IF iter = <<>>
       THEN /\ pc' = "blinds_count"
            /\ UNCHANGED <<iter, cur>>
       ELSE IF Underfunded(Head(iter))
            THEN /\ cur' = Head(iter)
                 /\ iter' = Tail(iter)
                 /\ pc' = "blinds_dead_event"
            ELSE /\ iter' = Tail(iter)
                 /\ pc' = "blinds_check"
                 /\ UNCHANGED cur
    /\ UNCHANGED <<dealer, startMoney, roster, deck, cards, pot, bets, message,
                   exc, discard, turnPool, turnPile, turnCards, log, counters>>

\* self._event_dispatcher.dead_player_event(player)
BlindsDeadEvent ==
    /\ pc = "blinds_dead_event"
    /\ log' = Append(log, Event("dead-player", cur, 0))
    /\ pc' = "blinds_remove"
    /\ UNCHANGED <<dealer, startMoney, roster, deck, cards, pot, bets, iter,
                   turn, counters>>

\* self._game_players.remove(player.id)
BlindsRemove ==
    /\ pc = "blinds_remove"
    /\ active' = [active EXCEPT ![cur] = FALSE]
    /\ cur' = 0
    /\ pc' = "blinds_check"
    /\ UNCHANGED <<dealer, startMoney, money, deck, cards, pot, bets, iter,
                   message, exc, discard, turnPool, turnPile, turnCards, log,
                   counters>>

\* mutant: a single player is taken to be enough
NotEnoughPlayers_None == count_active < 1

\* if self._game_players.count_active() < 2
NotEnoughPlayers == count_active < 2

\* if ...: raise GameError("Not enough players"); bets = {}
BlindsCount ==
    /\ pc = "blinds_count"
    /\ IF NotEnoughPlayers
       THEN /\ pc' = "raised_GameError"
            /\ UNCHANGED <<bets, iter>>
       ELSE /\ bets' = NoBets
            /\ iter' = ActiveList
            /\ pc' = "blinds_take"
    /\ UNCHANGED <<dealer, startMoney, roster, deck, cards, pot, turn, log,
                   counters>>

\* Player.take_money(amount)
TakeMoney(m, amount) == m - amount

\* mutant: the bet recorded is the money of the player
BlindBet_Money(p) == money[p]

\* bets[player.id] = self._blind
BlindBet(p) == Blind

\* for player in self._game_players.active: player.take_money(self._blind);
\* bets[player.id] = self._blind ... return bets
BlindsTake ==
    /\ pc = "blinds_take"
    /\ IF iter = <<>>
       THEN /\ pc' = "new_game_event"
            /\ UNCHANGED <<money, bets, iter>>
       ELSE LET p == Head(iter) IN
            /\ money' = [money EXCEPT ![p] = TakeMoney(money[p], Blind)]
            /\ bets' = [q \in DOMAIN bets \cup {p} |->
                            IF q = p THEN BlindBet(p) ELSE bets[q]]
            /\ iter' = Tail(iter)
            /\ pc' = "blinds_take"
    /\ UNCHANGED <<dealer, startMoney, active, deck, cards, pot, turn, log,
                   counters>>

\* mutant: the pot update is announced before the blinds are in the pot
NewGameEvent_ThenUpdate ==
    /\ pc = "new_game_event"
    /\ log' = Append(log, Ev("new-game", dealer, 0, ActiveList, bets))
    /\ pc' = "pots_update_event"
    /\ UNCHANGED <<dealer, startMoney, roster, deck, cards, pot, bets, iter,
                   turn, counters>>

\* self._event_dispatcher.new_game_event(id, active, dealer_id, blind_bets)
NewGameEvent ==
    /\ pc = "new_game_event"
    /\ log' = Append(log, Ev("new-game", dealer, 0, ActiveList, bets))
    /\ pc' = "pots_add_bets"
    /\ UNCHANGED <<dealer, startMoney, roster, deck, cards, pot, bets, iter,
                   turn, counters>>

\* pots.add_bets(blind_bets)
PotsAddBets ==
    /\ pc = "pots_add_bets"
    /\ pot' = pot + SumOver(bets, DOMAIN bets)
    /\ pc' = "pots_update_event"
    /\ UNCHANGED <<dealer, startMoney, roster, deck, cards, bets, iter, turn,
                   log, counters>>

\* self._event_dispatcher.pots_update_event(active, pots)
PotsUpdateEvent ==
    /\ pc = "pots_update_event"
    /\ log' = Append(log, Ev("pots-update", 0, pot, ActiveList, NoBets))
    /\ pc' = "assign_cards"
    /\ UNCHANGED <<dealer, startMoney, roster, deck, cards, pot, bets, iter,
                   turn, counters>>

\* ------------------------------------------------------------------------
\* play_hand, inside the try block
\* ------------------------------------------------------------------------

\* PokerGame._assign_cards(n, dealer_id, deck, scores): n cards off the deck
\* for every player of the rotation
RECURSIVE Deal(_, _, _, _, _)
Deal(s, n, pl, dp, cs) ==
    IF s = <<>> THEN [pool |-> pl, pile |-> dp, cards |-> cs]
    ELSE IF ~active[Head(s)] THEN Deal(Tail(s), n, pl, dp, cs)
    ELSE LET r == PopCards(pl, dp, n) IN
         Deal(Tail(s), n, r.pool, r.pile, [cs EXCEPT ![Head(s)] = r.cards])

\* self._assign_cards(5, dealer_id, deck, scores)
AssignCards ==
    /\ pc = "assign_cards"
    /\ LET r == Deal(Seats(dealer), HandSize, pool, pile, cards) IN
       /\ pool' = r.pool
       /\ pile' = r.pile
       /\ cards' = r.cards
    /\ pc' = "detect_after_deal"
    /\ UNCHANGED <<dealer, startMoney, roster, pot, bets, iter, turn, log,
                   counters>>

\* mutant: the hand is decided only when nobody is left
GameOver_Nobody == count_active < 1

\* detect_game_over(): if self._game_players.count_active() < 2
GameOver == count_active < 2

\* detect_game_over() after the cards assignment
DetectAfterDeal ==
    /\ pc = "detect_after_deal"
    /\ pc' = IF GameOver THEN "except" ELSE "first_bet"
    /\ UNCHANGED <<dealer, startMoney, roster, deck, cards, pot, bets, iter,
                   turn, log, counters>>

\* what a betting round can come to: a player leaves the hand (0: nobody),
\* those who stay put the same amount in; a round somebody leaves is
\* taken without further bets
BetOutcomes ==
    { <<0, a>> : a \in BetAmounts } \cup { <<f, 0>> : f \in ActiveSet }

\* BetHandler.bet_round(dealer_id, {}, pots): bets go from the players who
\* stay to the pot, as far as their money goes
BetRound(next) ==
    \E o \in BetOutcomes :
        LET stay == ActiveSet \ {o[1]}
            put  == [p \in Players |->
                        IF p \in stay
                        THEN (IF money[p] < o[2] THEN money[p] ELSE o[2])
                        ELSE 0]
        IN  /\ stay # {}
            /\ active' = [p \in Players |-> p \in stay]
            /\ money' = [p \in Players |-> money[p] - put[p]]
            /\ pot' = pot + SumOver(put, Players)
            /\ betRounds' = betRounds + 1
            /\ pc' = next
            /\ UNCHANGED <<dealer, startMoney, deck, cards, bets, iter, turn,
                           log, notices, turns, showdowns, payouts>>

\* self._bet_handler.bet_round(dealer_id, {}, pots), first round
FirstBetRound ==
    /\ pc = "first_bet"
    /\ BetRound("detect_after_first_bet")

\* detect_game_over() after the first bet round; then the loop of
\* _change_cards_round starts
DetectAfterFirstBet ==
    /\ pc = "detect_after_first_bet"
    /\ IF GameOver
       THEN /\ pc' = "except"
            /\ UNCHANGED iter
       ELSE /\ pc' = "cc_next"
            /\ iter' = Seats(dealer)
    /\ UNCHANGED <<dealer, startMoney, roster, deck, cards, pot, bets, turn,
                   log, counters>>

\* detect_game_over() after the change of cards
DetectAfterExchange ==
    /\ pc = "detect_after_exchange"
    /\ pc' = IF GameOver THEN "except" ELSE "money_guard"
    /\ UNCHANGED <<dealer, startMoney, roster, deck, cards, pot, bets, iter,
                   turn, log, counters>>

\* mutant: the guard counts the active players, with or without money
MoneyGuard_CountActive ==
    /\ pc = "money_guard"
    /\ pc' = IF count_active < 2 THEN "except" ELSE "final_bet"
    /\ UNCHANGED <<dealer, startMoney, roster, deck, cards, pot, bets, iter,
                   turn, log, counters>>

\* if self._game_players.count_active_with_money() < 2: raise EndGameException
MoneyGuard ==
    /\ pc = "money_guard"
    /\ pc' = IF count_active_with_money < 2 THEN "except" ELSE "final_bet"
    /\ UNCHANGED <<dealer, startMoney, roster, deck, cards, pot, bets, iter,
                   turn, log, counters>>

\* self._bet_handler.bet_round(dealer_id, {}, pots), final round
FinalBetRound ==
    /\ pc = "final_bet"
    /\ BetRound("final_detect")

\* self._game_over_detection(): the early-termination check once more
FinalDetect ==
    /\ pc = "final_detect"
    /\ pc' = IF GameOver THEN "except" ELSE "raise_end"
    /\ UNCHANGED <<dealer, startMoney, roster, deck, cards, pot, bets, iter,
                   turn, log, counters>>

\* raise EndGameException, at the end of the try block
RaiseEnd ==
    /\ pc = "raise_end"
    /\ pc' = "except"
    /\ UNCHANGED <<dealer, startMoney, roster, deck, cards, pot, bets, iter,
                   turn, log, counters>>

\* ------------------------------------------------------------------------
\* _change_cards_round
\* ------------------------------------------------------------------------

EndTurn ==
    /\ cur' = 0
    /\ message' = NoMessage
    /\ exc' = "none"
    /\ discard' = <<>>
    /\ turnPool' = <<>>
    /\ turnPile' = <<>>
    /\ turnCards' = <<>>

\* for player in self._game_players.round(dealer_id)
ChangeCardsNext ==
    /\ pc = "cc_next"
    /\ LET s == SkipInactive(iter) IN
       IF s = <<>>
       THEN /\ iter' = <<>>
            /\ pc' = "detect_after_exchange"
            /\ UNCHANGED cur
       ELSE /\ cur' = Head(s)
            /\ iter' = Tail(s)
            /\ pc' = "cc_action_event"
    /\ UNCHANGED <<dealer, startMoney, roster, deck, cards, pot, bets, message,
                   exc, discard, turnPool, turnPile, turnCards, log, counters>>

\* self._event_dispatcher.change_cards_action_event(player, timeout, epoch)
ChangeCardsActionEvent ==
    /\ pc = "cc_action_event"
    /\ log' = Append(log, Event("player-action", cur, 0))
    /\ turns' = [turns EXCEPT ![cur] = @ + 1]
    /\ turnPool' = pool
    /\ turnPile' = pile
    /\ turnCards' = cards[cur]
    /\ pc' = "cc_recv"
    /\ UNCHANGED <<dealer, startMoney, roster, deck, cards, pot, bets, iter,
                   cur, message, exc, discard, notices, betRounds, showdowns,
                   payouts>>

\* discard = self._get_player_discard(player, scores, timeout_epoch=...)
GetPlayerDiscard ==
    /\ pc = "cc_recv"
    /\ \E m \in Responses :
         LET e == DiscardError(m, cards[cur]) IN
         /\ message' = m
         /\ exc' = e
         /\ discard' = IF e = "none" THEN DiscardOf(m, cards[cur]) ELSE <<>>
         /\ pc' = IF e = "none" THEN "cc_else" ELSE "cc_send_error"
    /\ UNCHANGED <<dealer, startMoney, roster, deck, cards, pot, bets, iter,
                   cur, turnPool, turnPile, turnCards, log, counters>>

\* mutant: the handler goes on to the dead-player event without the notice
SendError_NoNotice ==
    /\ pc = "cc_send_error"
    /\ pc' = "cc_dead_event"
    /\ UNCHANGED <<dealer, startMoney, roster, deck, cards, pot, bets, iter,
                   turn, log, counters>>

\* except (...) as e: player.send_message({"message_type": "error", ...});
\* the call is not guarded, and a channel that cannot be written to raises
\* ChannelError out of the handler
SendError ==
    /\ pc = "cc_send_error"
    /\ \E delivered \in BOOLEAN :
         IF delivered
         THEN /\ notices' = [notices EXCEPT ![cur] = @ + 1]
              /\ pc' = "cc_dead_event"
         ELSE /\ pc' = "raised_ChannelError"
              /\ UNCHANGED notices
    /\ UNCHANGED <<dealer, startMoney, roster, deck, cards, pot, bets, iter,
                   turn, log, turns, betRounds, showdowns, payouts>>

\* self._event_dispatcher.dead_player_event(player)
ChangeCardsDeadEvent ==
    /\ pc = "cc_dead_event"
    /\ log' = Append(log, Event("dead-player", cur, 0))
    /\ pc' = "cc_remove"
    /\ UNCHANGED <<dealer, startMoney, roster, deck, cards, pot, bets, iter,
                   turn, counters>>

\* mutant: the id removed is that of the dealer
ChangeCardsRemove_Dealer ==
    /\ pc = "cc_remove"
    /\ active' = [active EXCEPT ![dealer] = FALSE]
    /\ EndTurn
    /\ pc' = "cc_next"
    /\ UNCHANGED <<dealer, startMoney, money, deck, cards, pot, bets, iter,
                   log, counters>>

\* self._game_players.remove(player.id)
ChangeCardsRemove ==
    /\ pc = "cc_remove"
    /\ active' = [active EXCEPT ![cur] = FALSE]
    /\ EndTurn
    /\ pc' = "cc_next"
    /\ UNCHANGED <<dealer, startMoney, money, deck, cards, pot, bets, iter,
                   log, counters>>

\* else: if discard: new_cards = deck.pop_cards(len(discard));
\* deck.push_cards(discard); cards = [...] + new_cards;
\* scores.assign_cards(player.id, cards); self._send_player_score(...)
AssignNewCards ==
    /\ pc = "cc_else"
    /\ IF discard # <<>>
       THEN LET r == PopCards(pool, pile, Len(discard)) IN
            /\ pool' = r.pool
            /\ pile' = PushCards(r.pile, discard)
            /\ cards' = [cards EXCEPT ![cur] = NewHand(cards[cur], discard, r.cards)]
       ELSE UNCHANGED <<pool, pile, cards>>
    /\ pc' = "cc_event"
    /\ UNCHANGED <<dealer, startMoney, roster, pot, bets, iter, turn, log,
                   counters>>

\* mutant: the event is raised only when cards were changed
ChangeCardsEvent_OnlyIfDiscard ==
    /\ pc = "cc_event"
    /\ log' = IF discard # <<>>
              THEN Append(log, Event("change-cards", cur, Len(discard)))
              ELSE log
    /\ EndTurn
    /\ pc' = "cc_next"
    /\ UNCHANGED <<dealer, startMoney, roster, deck, cards, pot, bets, iter,
                   counters>>

\* self._event_dispatcher.change_cards_event(player, len(discard))
ChangeCardsEvent ==
    /\ pc = "cc_event"
    /\ log' = Append(log, Event("change-cards", cur, Len(discard)))
    /\ EndTurn
    /\ pc' = "cc_next"
    /\ UNCHANGED <<dealer, startMoney, roster, deck, cards, pot, bets, iter,
                   counters>>

\* ------------------------------------------------------------------------
\* play_hand, the end of the hand
\* ------------------------------------------------------------------------

\* mutant: the showdown also runs for a single player
Showdown_AnyPlayer ==
    /\ pc = "except"
    /\ IF count_active > 0
       THEN /\ showdowns' = showdowns + 1
            /\ log' = Append(log, Event("showdown", 0, 0))
       ELSE UNCHANGED <<showdowns, log>>
    /\ pc' = "detect_winners"
    /\ UNCHANGED <<dealer, startMoney, roster, deck, cards, pot, bets, iter,
                   turn, notices, turns, betRounds, payouts>>

\* except EndGameException: if count_active() > 1: self._showdown(scores)
Showdown ==
    /\ pc = "except"
    /\ IF count_active > 1
       THEN /\ showdowns' = showdowns + 1
            /\ log' = Append(log, Event("showdown", 0, 0))
       ELSE UNCHANGED <<showdowns, log>>
    /\ pc' = "detect_winners"
    /\ UNCHANGED <<dealer, startMoney, roster, deck, cards, pot, bets, iter,
                   turn, notices, turns, betRounds, payouts>>

\* ScoreDetector: the strength of a hand, here its highest card
RECURSIVE Strength(_)
Strength(hand) ==
    IF hand = <<>> THEN 0
    ELSE LET r == Strength(Tail(hand)) IN IF Head(hand) > r THEN Head(hand) ELSE r

\* Pots/Scores: the player still in with the strongest hand
Winner ==
    CHOOSE w \in ActiveSet :
        \A p \in ActiveSet : Strength(cards[w]) >= Strength(cards[p])

\* self._detect_winners(pots, scores): the pot goes to the winner
DetectWinners ==
    /\ pc = "detect_winners"
    /\ payouts' = payouts + 1
    /\ log' = Append(log, Event("winner-designation", 0, pot))
    /\ IF ActiveSet = {}
       THEN UNCHANGED <<money, pot>>
       ELSE /\ money' = [money EXCEPT ![Winner] = @ + pot]
            /\ pot' = 0
    /\ pc' = "game_over_event"
    /\ UNCHANGED <<dealer, startMoney, active, deck, cards, bets, iter, turn,
                   notices, turns, betRounds, showdowns>>

\* self._event_dispatcher.game_over_event()
GameOverEvent ==
    /\ pc = "game_over_event"
    /\ log' = Append(log, Event("game-over", 0, 0))
    /\ pc' = "returned"
    /\ UNCHANGED <<dealer, startMoney, roster, deck, cards, pot, bets, iter,
                   turn, counters>>

\* ------------------------------------------------------------------------
\* Specification
\* ------------------------------------------------------------------------

Next ==
    \/ Reset
    \/ BlindsCheck
    \/ BlindsDeadEvent
    \/ BlindsRemove
    \/ BlindsCount
    \/ BlindsTake
    \/ NewGameEvent
    \/ PotsAddBets
    \/ PotsUpdateEvent
    \/ AssignCards
    \/ DetectAfterDeal
    \/ FirstBetRound
    \/ DetectAfterFirstBet
    \/ ChangeCardsNext
    \/ ChangeCardsActionEvent
    \/ GetPlayerDiscard
    \/ SendError
    \/ ChangeCardsDeadEvent
    \/ ChangeCardsRemove
    \/ AssignNewCards
    \/ ChangeCardsEvent
    \/ DetectAfterExchange
    \/ MoneyGuard
    \/ FinalBetRound
    \/ FinalDetect
    \/ RaiseEnd
    \/ Showdown
    \/ DetectWinners
    \/ GameOverEvent

Spec == Init /\ [][Next]_vars

\* play_hand is one task that is always run on: every receive comes back by
\* its deadline plus tolerance and every collaborator call returns, so the
\* step play_hand is at is eventually taken
FairSpec == Spec /\ WF_vars(Next)

\* ------------------------------------------------------------------------
\* Properties
\* ------------------------------------------------------------------------

\* play_hand is over: it returned, or an exception left it after the blinds
Ended == pc \in {"returned", "raised_ChannelError"}

\* play_hand has not yet decided whether enough players are left
InBlindsKick ==
    pc \in {"reset", "blinds_check", "blinds_dead_event", "blinds_remove",
            "blinds_count"}

EventsOf(type) == {i \in 1..Len(log) : log[i].type = type}

DeadEventsOf(p) == {i \in EventsOf("dead-player") : log[i].player = p}

\* every card of the deck and of the hands, one entry per place it lies in
RECURSIVE HandsFrom(_)
HandsFrom(p) == IF p > NumPlayers THEN <<>> ELSE cards[p] \o HandsFrom(p + 1)

AllCards == pool \o pile \o HandsFrom(1)

DistinctRefs(m) == Cardinality(SeqToSet(m.refs))

\* C1: once a hand that got past the blinds is over, the payout has run
\* exactly once (and it never runs twice).
C1_PayoutExactlyOnce ==
    /\ payouts <= 1
    /\ Ended => payouts = 1

\* C2: once a hand that got past the blinds is over, the log holds exactly
\* one game-over event, it is the last event, and the payout came before it.
C2_GameOverOnceAndLast ==
    Ended =>
        /\ Cardinality(EventsOf("game-over")) = 1
        /\ log[Len(log)].type = "game-over"
        /\ payouts = 1
        /\ \E i \in EventsOf("winner-designation") : i < Len(log)

\* C3: no failure of a player's exchange turn leaves play_hand, and at the
\* end of the exchange every player still in has had their turn.
C3_ExchangeFailureContained ==
    /\ pc # "raised_ChannelError"
    /\ pc = "detect_after_exchange" =>
           \A p \in Players : active[p] => turns[p] = 1

\* C4: every hand that has been dealt holds exactly five cards.
C4_FiveCardsPerHand ==
    \A p \in Players : cards[p] # <<>> => Len(cards[p]) = HandSize

\* C5: deck, discard pile and hands together always hold every card of the
\* deck exactly once.
C5_DeckConserved ==
    pc # "reset" =>
        /\ Len(AllCards) = DeckSize
        /\ Cardinality(SeqToSet(AllCards)) = Len(AllCards)

\* C6: a player who came with less than the blind keeps their money, is in
\* no blind bets mapping and in no new-game event, holds no cards, and once
\* the blinds loop is through is out of the roster with exactly one
\* dead-player event, hence before any bet round.
C6_UnderfundedEliminated ==
    \A p \in Players :
        startMoney[p] < Blind =>
            /\ money[p] = startMoney[p]
            /\ p \notin DOMAIN bets
            /\ \A i \in EventsOf("new-game") :
                   p \notin SeqToSet(log[i].ids) /\ p \notin DOMAIN log[i].bets
            /\ cards[p] = <<>>
            /\ turns[p] = 0
            /\ Cardinality(DeadEventsOf(p)) <= 1
            /\ ~InBlindsKick => ~active[p] /\ Cardinality(DeadEventsOf(p)) = 1
            /\ betRounds > 0 => ~active[p]

\* C6 witness: a whole hand, both bet rounds run, with an under-funded player
C6_Witness ==
    /\ pc = "returned"
    /\ betRounds = 2
    /\ \E p \in Players : startMoney[p] < Blind

\* C7: with fewer than two funded players play_hand ends in GameError, and
\* then nothing was debited, dealt, bet, exchanged, shown or paid, and neither
\* new-game nor game-over was emitted.
C7_CleanAbort ==
    /\ ( ~InBlindsKick /\ Cardinality({p \in Players : startMoney[p] >= Blind}) < 2 )
           => pc = "raised_GameError"
    /\ pc = "raised_GameError" =>
           /\ money = startMoney
           /\ pot = 0
           /\ bets = NoBets
           /\ \A p \in Players : cards[p] = <<>> /\ turns[p] = 0
           /\ Len(pool) = DeckSize
           /\ betRounds = 0
           /\ showdowns = 0
           /\ payouts = 0
           /\ EventsOf("new-game") = {}
           /\ EventsOf("game-over") = {}

\* C7 witness: the abort, one funded player left
C7_Witness ==
    /\ pc = "raised_GameError"
    /\ count_active = 1
    /\ EventsOf("dead-player") # {}

\* C8: when the blinds are collected the bets mapping is the blind for each
\* active player and nobody else, each of them has paid exactly the blind
\* and has no debt, and when the pot is seeded it holds the blind times the
\* number of active players, money plus pot being what the players came with.
C8_BlindsCollected ==
    /\ pc = "new_game_event" =>
           /\ DOMAIN bets = ActiveSet
           /\ \A p \in ActiveSet :
                  /\ bets[p] = Blind
                  /\ money[p] = startMoney[p] - Blind
                  /\ money[p] >= 0
           /\ \A p \in Players \ ActiveSet : money[p] = startMoney[p]
    /\ pc = "pots_update_event" =>
           /\ pot = Blind * count_active
           /\ SumOver(money, Players) + pot = SumOver(startMoney, Players)

\* C8 witness: the pot seeded by a full table, one player left with nothing
C8_Witness ==
    /\ pc = "pots_update_event"
    /\ count_active = NumPlayers
    /\ \E p \in Players : money[p] = 0

\* C9: an accepted response yields one discard per distinct reference and
\* at most four; a response with five or more distinct references is
\* rejected; after a rejected response deck and hand are as the turn
\* found them.
C9_RejectedLeavesDeckAndHand ==
    /\ pc \in {"cc_else", "cc_event"} =>
           /\ Len(discard) = DistinctRefs(message)
           /\ Len(discard) <= MaxDiscard
    /\ ( /\ message.outcome = "message"
         /\ message.mtype = "change-cards"
         /\ message.hasCards
         /\ DistinctRefs(message) >= 5 ) => exc = "MessageFormatError"
    /\ exc # "none" =>
           /\ pool = turnPool
           /\ pile = turnPile
           /\ cards[cur] = turnCards

\* C9 witness: five distinct references rejected, after an earlier turn
\* has already moved cards
C9_Witness ==
    /\ pc = "cc_dead_event"
    /\ exc = "MessageFormatError"
    /\ DistinctRefs(message) >= 5
    /\ pile # <<>>

\* C10: an accepted response names only positions 0..4 of the hand.
C10_OnlyHandPositions ==
    pc = "cc_else" =>
        \A i \in 1..Len(message.refs) :
            /\ message.refs[i].isInt
            /\ message.refs[i].val \in 0..(HandSize - 1)

\* C11: every hand ends, with the game-over event or with the GameError of
\* the blinds, and a turn that timed out leads on to the next turn of the
\* rotation.
C11_HandEnds ==
    /\ <>(pc \in {"returned", "raised_GameError"})
    /\ (pc = "cc_send_error" /\ exc = "MessageTimeout") ~> (pc = "cc_next")

\* the event the last step raised
LastEvent == log[Len(log)]

\* C12: a turn whose accepted response has an empty cards list leaves deck
\* and every hand as they were, keeps the player in, and raises a
\* change-cards event for that player with num_cards 0.
C12_ZeroDiscard ==
    [][ /\ (pc = "cc_else" /\ message.refs = <<>>) =>
              /\ pc' = "cc_event"
              /\ UNCHANGED <<pool, pile, cards, active, log>>
        /\ (pc = "cc_event" /\ message.refs = <<>>) =>
              /\ log' = Append(log, Event("change-cards", cur, 0))
              /\ active'[cur]
              /\ pool' = turnPool
              /\ pile' = turnPile
              /\ cards'[cur] = turnCards
              /\ pc' = "cc_next" ]_vars

\* C12 witness: the change-cards event with count 0 has just been raised,
\* after an earlier turn moved cards
C12_Witness ==
    /\ pc = "cc_next"
    /\ log # <<>>
    /\ LastEvent.type = "change-cards"
    /\ LastEvent.num = 0
    /\ active[LastEvent.player]
    /\ pile # <<>>

\* C13: a player eliminated in the card exchange has been sent exactly one
\* error notice, and it was sent when the dead-player event for that player
\* had not been raised yet.
C13_NoticeBeforeDeadEvent ==
    /\ \A p \in Players :
           /\ notices[p] <= 1
           /\ (turns[p] >= 1 /\ DeadEventsOf(p) # {}) => notices[p] = 1
           /\ (notices[p] = 1 /\ DeadEventsOf(p) = {}) =>
                  (pc = "cc_dead_event" /\ cur = p)
    /\ pc = "cc_dead_event" => (notices[cur] = 1 /\ DeadEventsOf(cur) = {})

\* C13 witness: a player who timed out has got the notice and the
\* dead-player event is out
C13_Witness ==
    /\ pc = "cc_remove"
    /\ exc = "MessageTimeout"
    /\ notices[cur] = 1
    /\ DeadEventsOf(cur) # {}

\* C14: when an event is about to be raised the change it reports is done:
\* the player of a dead-player event is out of the roster, the blinds of
\* new-game are debited, the pot of pots-update holds the blinds, the hand
\* of change-cards is the new hand.
C14_EventAfterStateChange ==
    /\ pc \in {"blinds_dead_event", "cc_dead_event"} => ~active[cur]
    /\ pc = "new_game_event" =>
           \A p \in DOMAIN bets : money[p] = startMoney[p] - bets[p]
    /\ pc = "pots_update_event" => pot = SumOver(bets, DOMAIN bets)
    /\ (pc = "cc_event" /\ discard # <<>>) => cards[cur] # turnCards

\* the checkpoints of detect_game_over
AtCheckpoint ==
    pc \in {"detect_after_deal", "detect_after_first_bet", "detect_after_exchange"}

\* showdown, payout and the end of play_hand
InTermination == pc \in {"except", "detect_winners", "game_over_event", "returned"}

\* C15: at a checkpoint with fewer than two active players the next step is
\* the showdown/payout handler, and from there on no bet round and no
\* exchange turn runs: nobody is prompted, deck and hands stay as they are.
C15_EarlyTermination ==
    [][ /\ (AtCheckpoint /\ count_active < 2) => pc' = "except"
        /\ InTermination =>
              /\ InTermination'
              /\ UNCHANGED <<betRounds, turns, notices, pool, pile, cards>>
              /\ log' = log \/ LastEvent'.type \notin {"player-action", "change-cards"}
      ]_vars

\* C15 witness: a hand decided by the first bet round, over without any
\* exchange turn and without a second bet round
C15_Witness ==
    /\ pc = "returned"
    /\ count_active = 1
    /\ betRounds = 1
    /\ \A p \in Players : turns[p] = 0 /\ notices[p] = 0

\* C16: from the guard before the final bet round play_hand goes to that
\* round if at least two active players have money left and to the
\* showdown/payout handler otherwise; a second bet round is run only from
\* there; and the handler runs the payout and then raises game-over.
C16_FinalBetGuard ==
    [][ /\ pc = "money_guard" =>
              pc' = IF count_active_with_money >= 2 THEN "final_bet" ELSE "except"
        /\ betRounds' > 1 =>
              \/ betRounds' = betRounds
              \/ pc = "final_bet" /\ count_active_with_money >= 2 /\ betRounds' = 2
        /\ pc = "except" => pc' = "detect_winners"
        /\ pc = "detect_winners" =>
              (payouts' = payouts + 1 /\ pc' = "game_over_event")
        /\ pc = "game_over_event" =>
              (log' = Append(log, Event("game-over", 0, 0)) /\ pc' = "returned")
      ]_vars

\* C16 witness: a hand with two players still in at the end that was over
\* after one bet round, the final one skipped for lack of money
C16_Witness ==
    /\ pc = "returned"
    /\ count_active >= 2
    /\ betRounds = 1
    /\ payouts = 1
    /\ LastEvent.type = "game-over"

\* C17: the showdown runs at most once and only in the termination handler;
\* once the handler is past it, it has run exactly when more than one
\* player is active, it came before the payout, and with one or no active
\* player the payout runs without it.
C17_ShowdownIffContested ==
    /\ showdowns <= 1
    /\ Cardinality(EventsOf("showdown")) = showdowns
    /\ ~InTermination => showdowns = 0
    /\ pc = "except" => (showdowns = 0 /\ payouts = 0)
    /\ pc \in {"detect_winners", "game_over_event", "returned"} =>
           /\ showdowns = (IF count_active > 1 THEN 1 ELSE 0)
           /\ pc = "detect_winners" => payouts = 0
           /\ pc # "detect_winners" => payouts = 1
    /\ \A i \in EventsOf("showdown") :
           \A j \in EventsOf("winner-designation") : i < j

\* C17 witness: a hand that ended with a showdown and a payout
C17_Witness ==
    /\ pc = "returned"
    /\ showdowns = 1
    /\ payouts = 1
    /\ count_active > 1

\* the phase of the hand play_hand is in: 1 RESET, 2 COLLECT_BLINDS, 3 DEAL,
\* 4 FIRST_BET, 5 CARD_EXCHANGE, 6 FINAL_BET, 7 SHOWDOWN, 8 PAYOUT,
\* 9 GAME_OVER, 10 play_hand is over
PhaseOf(at) ==
    CASE at = "reset" -> 1
      [] at \in {"blinds_check", "blinds_dead_event", "blinds_remove",
                 "blinds_count", "blinds_take"} -> 2
      [] at \in {"new_game_event", "pots_add_bets", "pots_update_event",
                 "assign_cards", "detect_after_deal"} -> 3
      [] at \in {"first_bet", "detect_after_first_bet"} -> 4
      [] at \in {"cc_next", "cc_action_event", "cc_recv", "cc_send_error",
                 "cc_dead_event", "cc_remove", "cc_else", "cc_event",
                 "detect_after_exchange", "money_guard"} -> 5
      [] at \in {"final_bet", "final_detect", "raise_end"} -> 6
      [] at = "except" -> 7
      [] at = "detect_winners" -> 8
      [] at = "game_over_event" -> 9
      [] at \in {"returned", "raised_GameError", "raised_ChannelError"} -> 10

\* the phases are gone through in their order, and what belongs to a phase
\* is done in that phase only
PhasesInOrder ==
    /\ PhaseOf(pc') >= PhaseOf(pc)
    /\ money' # money => PhaseOf(pc) \in {2, 4, 6, 8}
    /\ pot' # pot => PhaseOf(pc) \in {3, 4, 6, 8}
    /\ betRounds' # betRounds => PhaseOf(pc) \in {4, 6}
    /\ cards' # cards => PhaseOf(pc) \in {1, 3, 5}
    /\ turns' # turns => PhaseOf(pc) = 5
    /\ showdowns' # showdowns => PhaseOf(pc) = 7
    /\ payouts' # payouts => PhaseOf(pc) = 8
    /\ (log' # log /\ LastEvent'.type = "game-over") => PhaseOf(pc) = 9

Dealt(p) == cards[p] # <<>>

\* C18 as stated: the phases in their order, and in DEAL the cards are dealt
\* first, new-game comes after the deal, the pot is seeded after new-game
\* and pots-update comes after the seeding.
C18_PhaseOrderAsStated ==
    /\ [][PhasesInOrder]_vars
    /\ [](/\ EventsOf("new-game") # {} => \A p \in ActiveSet : Dealt(p)
          /\ pot > 0 => EventsOf("new-game") # {}
          /\ \A i \in EventsOf("pots-update") : log[i].num = Blind * Len(log[i].ids))

\* C18 amended: the phases in their order, and in DEAL new-game comes first,
\* then the pot is seeded, then pots-update is raised with the seeded pot,
\* and then five cards are dealt to each active player and to nobody else.
C18_PhaseOrder ==
    /\ [][PhasesInOrder]_vars
    /\ [](/\ pot > 0 => EventsOf("new-game") # {}
          /\ \A i \in EventsOf("pots-update") :
                 /\ log[i].num = Blind * Len(log[i].ids)
                 /\ \E j \in EventsOf("new-game") : j < i
          /\ (\E p \in Players : Dealt(p)) => EventsOf("pots-update") # {}
          /\ pc = "assign_cards" =>
                 (pot = Blind * count_active /\ \A p \in Players : ~Dealt(p))
          /\ pc = "detect_after_deal" =>
                 \A p \in Players :
                     Len(cards[p]) = (IF active[p] THEN HandSize ELSE 0))

\* C18 witness: a hand that went through every phase
C18_Witness ==
    /\ pc = "returned"
    /\ betRounds = 2
    /\ showdowns = 1
    /\ payouts = 1
    /\ \E p \in Players : turns[p] = 1

\* the place of a player in the rotation that starts after the dealer
SeatIndex(p) == CHOOSE i \in 1..NumPlayers : Seats(dealer)[i] = p

TurnInProgress ==
    pc \in {"cc_recv", "cc_else", "cc_send_error", "cc_dead_event", "cc_event"}

\* C19: every player-action event is the only one for its player, comes
\* later than those of the players before in the rotation, and is directly
\* followed by one outcome event for the same player, change-cards or
\* dead-player, unless that turn is still running; no player has both
\* outcomes; when the exchange is over every player still in had a turn.
C19_TurnsInRotation ==
    /\ \A i \in EventsOf("player-action") :
           /\ \A j \in EventsOf("player-action") :
                  i < j => SeatIndex(log[i].player) < SeatIndex(log[j].player)
           /\ IF i < Len(log)
              THEN /\ log[i + 1].type \in {"change-cards", "dead-player"}
                   /\ log[i + 1].player = log[i].player
              ELSE TurnInProgress /\ cur = log[i].player
    /\ \A i \in EventsOf("change-cards") :
           /\ log[i - 1].type = "player-action"
           /\ log[i - 1].player = log[i].player
           /\ DeadEventsOf(log[i].player) = {}
    /\ \A p \in Players : turns[p] <= 1
    /\ pc = "detect_after_exchange" =>
           \A p \in Players : active[p] => turns[p] = 1

\* play_hand is in the loop of _change_cards_round
InExchangeLoop ==
    pc \in {"cc_next", "cc_action_event", "cc_remove"} \/ TurnInProgress

\* C20: a step of an exchange turn leaves the hand and the activity flag of
\* every other player, the money of every player and the pot as they are;
\* a failed turn changes no hand, a successful one no activity flag.
C20_TurnFrame ==
    [][ InExchangeLoop =>
          /\ \A p \in Players \ {cur} :
                 cards'[p] = cards[p] /\ active'[p] = active[p]
          /\ money' = money
          /\ pot' = pot
          /\ exc # "none" => cards' = cards
          /\ pc \in {"cc_else", "cc_event"} => active' = active
      ]_vars

\* C20 witness: the exchange under way, one player eliminated in their turn
\* and another one who has changed cards
C20_Witness ==
    /\ pc = "cc_next"
    /\ pile # <<>>
    /\ \E p \in Players : turns[p] = 1 /\ ~active[p]
    /\ \E p \in Players : turns[p] = 1 /\ active[p]

====
